---- MODULE Spec2Model ----
(***************************************************************************)
(* Model of the Flask chat service in src/app.py: the /api/chat handler    *)
(* (chat), its keyword-guided search over find_relevant_topics, the        *)
(* exhaustive search_all_topics, the relevance check                       *)
(* check_content_relevance and the answer prompts handed to ask_groq.      *)
(*                                                                         *)
(* Strings that the code inspects character by character (topic names,     *)
(* queries, page URLs) are sequences of one-character strings.  A page     *)
(* text is represented by its length in characters, since the code only    *)
(* tests it for emptiness and slices prefixes of it.  The Notion client,   *)
(* the relevance completion and the answer completion are external: each   *)
(* call returns any of the results listed in the input domains below.      *)
(* fetchCalls, oracleCalls, completionCalls and scanned are history        *)
(* variables recording the calls a request made.                           *)
(***************************************************************************)
EXTENDS Integers, Sequences, FiniteSets

\* ------------------------------------------------------------------ bounds

\* Largest number of topics in notion_sources.json that is explored.
MaxTopics == 2

\* Longest query string that is explored.
MaxQueryLen == 2

\* --------------------------------------------------------- program constants

\* relevance["confidence"] > 60 in the keyword path.
KeywordThreshold == 60

\* best_match["confidence"] > 50 in the semantic path.
SemanticThreshold == 50

\* content_data["text"][:7000] in the keyword prompt.
KeywordContextLen == 7000

\* best_match['content']["text"][:7000] in the semantic prompt.
SemanticContextLen == 7000

\* ------------------------------------------------------------------ helpers

Min(a, b) == IF a <= b THEN a ELSE b

\* Python's None / a present value, for fields that may be None.
None == <<>>

Some(x) == <<x>>

\* s[:n] on a text represented by its length.
Slice(textLen, n) == Min(textLen, n)

\* Characters of the explored strings.
Char == {"a", "B"}

\* str.lower() is modelled on ASCII text: the printable ASCII characters
\* (but for the grave accent, which a string of this language cannot hold),
\* tab and newline.  On other characters (non-ASCII cased letters, some of which
\* lower to two code points or depend on their position in the word) the
\* operators below have no value, and no string of the model holds one.

\* The ASCII letters str.lower() changes, and what it changes them to.
UpperLetters ==
    <<"A", "B", "C", "D", "E", "F", "G", "H", "I", "J", "K", "L", "M",
      "N", "O", "P", "Q", "R", "S", "T", "U", "V", "W", "X", "Y", "Z">>

LowerLetters ==
    <<"a", "b", "c", "d", "e", "f", "g", "h", "i", "j", "k", "l", "m",
      "n", "o", "p", "q", "r", "s", "t", "u", "v", "w", "x", "y", "z">>

\* The ASCII characters str.lower() keeps: lower-case letters, digits, space,
\* punctuation, tab and newline.
KeptCharacters ==
    { " ", "!", "\"", "#", "$", "%", "&", "'", "(", ")", "*", "+",
      ",", "-", ".", "/", "0", "1", "2", "3", "4", "5", "6", "7",
      "8", "9", ":", ";", "<", "=", ">", "?", "@", "[", "\\", "]",
      "^", "_", "a", "b", "c", "d", "e", "f", "g", "h", "i",
      "j", "k", "l", "m", "n", "o", "p", "q", "r", "s", "t", "u",
      "v", "w", "x", "y", "z", "{", "|", "}", "~", "\t", "\n" }

\* str.lower() on one ASCII character; not defined on any other character.
LowerChar(c) ==
    CASE (\E i \in DOMAIN UpperLetters : UpperLetters[i] = c) ->
             LowerLetters[CHOOSE i \in DOMAIN UpperLetters : UpperLetters[i] = c]
      [] c \in KeptCharacters -> c

\* Mutant of Lower: the comparison keeps the case.
LowerKeepsCase(s) == s

\* str.lower() on an ASCII string.
Lower(s) == [i \in DOMAIN s |-> LowerChar(s[i])]

\* Python's `needle in hay` on strings.
Contains(needle, hay) ==
    \E i \in 0..(Len(hay) - Len(needle)) :
        SubSeq(hay, i + 1, i + Len(needle)) = needle

\* Index of the last "-" of url, 0 when there is none.
LastHyphen(url) ==
    IF \E i \in DOMAIN url : url[i] = "-"
    THEN CHOOSE i \in DOMAIN url :
             /\ url[i] = "-"
             /\ \A j \in DOMAIN url : j > i => url[j] # "-"
    ELSE 0

\* url.split("-")[-1]
extract_page_id(url) == SubSeq(url, LastHyphen(url) + 1, Len(url))

\* ------------------------------------------------------------ input domains

\* Strings over Char of length at most n.
RECURSIVE Strings(_)
Strings(n) ==
    IF n = 0 THEN {<<>>}
    ELSE LET shorter == Strings(n - 1)
         IN shorter \cup {Append(s, c) : s \in {t \in shorter : Len(t) = n - 1}, c \in Char}

Queries == Strings(MaxQueryLen)

\* Entries notion_sources.json may hold: topic name and page URL.
PageEntries ==
    { [topic |-> <<"A">>,      url |-> <<"n", "-", "A", "-", "1">>],
      [topic |-> <<"a", "b">>, url |-> <<"p", "2">>],
      [topic |-> <<"B">>,      url |-> <<"n", "-", "B", "-">>] }

\* The keys of a JSON object are unique.
Distinct(s) == \A i, j \in DOMAIN s : i # j => s[i].topic # s[j].topic

\* Catalogs of at most n entries, in the order json.load keeps.
Catalogs(n) ==
    {s \in UNION {[1..k -> PageEntries] : k \in 0..n} : Distinct(s)}

\* Bodies request.get_json() may return: JSON null, or an object with or
\* without a "query" member.
Bodies ==
    {[kind |-> "null", hasQuery |-> FALSE, query |-> <<>>],
     [kind |-> "object", hasQuery |-> FALSE, query |-> <<>>]}
    \cup {[kind |-> "object", hasQuery |-> TRUE, query |-> q] : q \in Queries}

\* No request is being served.
NoBody == [kind |-> "none", hasQuery |-> FALSE, query |-> <<>>]

\* What notion.blocks.children.list + the block loop may produce.
PageContents ==
    { [textLen |-> 0,    images |-> <<"img">>],
      [textLen |-> 7001, images |-> <<"img">>] }

FetchResults ==
    {[ok |-> FALSE, content |-> [textLen |-> 0, images |-> <<>>]]}
    \cup {[ok |-> TRUE, content |-> c] : c \in PageContents}

\* A value json.loads may return for the model's reply.  shape "other" is
\* any JSON value that is not an object; relevant is "true"/"false" for a
\* JSON boolean, "yes" for a non-empty string, "absent" for a missing key;
\* confKind is "int", "str" or "absent".
Verdict(shape, relevant, confKind, confidence) ==
    [shape |-> shape, relevant |-> relevant, confKind |-> confKind,
     confidence |-> confidence, reason |-> "llm"]

ConfValues == {0, 50, 60, 75}

WellFormedVerdicts ==
    {Verdict("dict", "true", "int", c) : c \in ConfValues}
    \cup {Verdict("dict", "false", "int", 75)}

MalformedVerdicts ==
    { Verdict("other", "absent", "absent", 0),
      Verdict("dict", "absent", "int", 75),
      Verdict("dict", "yes", "int", 75),
      Verdict("dict", "true", "absent", 0),
      Verdict("dict", "true", "str", 0) }

\* The completion call of check_content_relevance either raises (the API
\* call fails or the text is not JSON) or yields a JSON value.
OracleReplies ==
    {[raises |-> TRUE, value |-> Verdict("other", "absent", "absent", 0)]}
    \cup {[raises |-> FALSE, value |-> v] : v \in WellFormedVerdicts \cup MalformedVerdicts}

\* -------------------------------------------------------------------- state

VARIABLES
    NOTION_PAGES,     \* the catalog loaded at start-up: sequence of [topic, url]
    pc,               \* position of the chat handler
    data,             \* request.get_json() of the request being served
    query,            \* data.get("query") of the request being served
    relevant_topics,  \* result of find_relevant_topics(query)
    ki,               \* position of the keyword loop in relevant_topics
    si,               \* position of the search_all_topics loop in NOTION_PAGES
    best_match,       \* search_all_topics: None or Some([topic, content, confidence])
    best_confidence,  \* search_all_topics: best confidence so far
    all_contents,     \* search_all_topics: [topic, content] in insertion order
    prompt,           \* None or Some(prompt handed to ask_groq)
    reply,            \* the JSON body being built for the answer
    response,         \* None or Some(the HTTP response)
    fetchCalls,       \* page ids passed to fetch_page_content, in call order
    oracleCalls,      \* calls of check_content_relevance, in call order
    completionCalls,  \* prompts passed to ask_groq, in call order
    scanned           \* verdicts search_all_topics got, in scan order

vars == <<NOTION_PAGES, pc, data, query, relevant_topics, ki, si, best_match,
          best_confidence, all_contents, prompt, reply, response, fetchCalls,
          oracleCalls, completionCalls, scanned>>

\* list(NOTION_PAGES.keys())
TopicNames == [i \in DOMAIN NOTION_PAGES |-> NOTION_PAGES[i].topic]

\* NOTION_PAGES[topic]
UrlOf(topic) ==
    (CHOOSE e \in {NOTION_PAGES[i] : i \in DOMAIN NOTION_PAGES} : e.topic = topic).url

\* ------------------------------------------------------------ pure functions

find_relevant_topics(q) ==
    LET query_lower == Lower(q)
        Matches(topic) == Contains(Lower(topic), query_lower)
    IN SelectSeq(TopicNames, Matches)

\* The verdict returned when the completion call or json.loads raises.
FailedVerdict ==
    [shape |-> "dict", relevant |-> "false", confKind |-> "int",
     confidence |-> 0, reason |-> "Failed to parse relevance"]

check_content_relevance(content, oracle) ==
    IF oracle.raises THEN FailedVerdict ELSE oracle.value

\* Mutant of HasText: only `if content_data:` is tested.
HasTextUnchecked(content) == TRUE

\* content.get("text") as a condition.
HasText(content) == content.textLen > 0

\* relevance["relevant"] raises: not a dict, or no such key.
RelevantRaises(v) == v.shape # "dict" \/ v.relevant = "absent"

\* relevance["relevant"] as a condition.
RelevantTruthy(v) == v.relevant \in {"true", "yes"}

\* relevance["confidence"] > n raises: no such key, or a str compared to an int.
ConfidenceRaises(v) == v.confKind # "int"

\* `relevance["relevant"] and relevance["confidence"] > n` raises; the
\* right operand is evaluated only when the left one is truthy.
TestRaises(v) == RelevantRaises(v) \/ (RelevantTruthy(v) /\ ConfidenceRaises(v))

\* Mutant of TestHolds: the comparison is inverted.
TestHoldsInverted(v, n) == ~TestRaises(v) /\ RelevantTruthy(v) /\ v.confidence < n

\* Mutant of TestHolds: >= in place of >.
TestHoldsOrEqual(v, n) == ~TestRaises(v) /\ RelevantTruthy(v) /\ v.confidence >= n

\* Mutant of TestHolds: the relevant flag is not tested.
TestHoldsAnyRelevance(v, n) == ~TestRaises(v) /\ v.confKind = "int" /\ v.confidence > n

\* `relevance["relevant"] and relevance["confidence"] > n` holds.
TestHolds(v, n) == ~TestRaises(v) /\ RelevantTruthy(v) /\ v.confidence > n

\* For the call log: the verdict is a JSON true with an integer confidence
\* above n.
Strong(v, n) ==
    v.shape = "dict" /\ v.relevant = "true" /\ v.confKind = "int" /\ v.confidence > n

\* The prompt of the keyword path.
KeywordPrompt(topic, content) ==
    [kind |-> "keyword", topic |-> Some(topic),
     contextLen |-> Slice(content.textLen, KeywordContextLen),
     refuseIfUnanswerable |-> TRUE, topics |-> <<>>]

\* The prompt of the semantic path.
SemanticPrompt(match) ==
    [kind |-> "semantic", topic |-> Some(match.topic),
     contextLen |-> Slice(match.content.textLen, SemanticContextLen),
     refuseIfUnanswerable |-> FALSE, topics |-> <<>>]

\* The fallback prompt.
FallbackPrompt(available_topics) ==
    [kind |-> "fallback", topic |-> None, contextLen |-> 0,
     refuseIfUnanswerable |-> TRUE, topics |-> available_topics]

NoReply ==
    [topic |-> None, confidence |-> 0, source |-> "none", images |-> <<>>,
     available_topics |-> None, relevant |-> "none"]

\* The response of an uncaught exception.
ServerError(what) == Some([status |-> 500, error |-> what, body |-> NoReply])

\* jsonify({"error": "No query provided"}), 400
NoQueryProvided == Some([status |-> 400, error |-> "No query provided", body |-> NoReply])

\* data.get("query") raises: get_json() returned None.
GetRaises(body) == body.kind = "null"

\* `not query`: the key is missing (None) or the string is empty.
QueryFalsy(body) == ~body.hasQuery \/ body.query = <<>>

\* Mutant of FetchRaises: the failure is swallowed and the page reads as empty.
FetchRaisesSwallowed(fetched) == FALSE

\* fetch_page_content raises (the Notion call fails).
FetchRaises(fetched) == ~fetched.ok

\* How a fetch ended, for the call log.
FetchOutcome(fetched) ==
    IF ~fetched.ok THEN "error"
    ELSE IF fetched.content.textLen = 0 THEN "empty" ELSE "text"

\* --------------------------------------------------------------------- Init

Init ==
    /\ NOTION_PAGES \in Catalogs(MaxTopics)
    /\ pc = "idle"
    /\ data = NoBody
    /\ query = <<>>
    /\ relevant_topics = <<>>
    /\ ki = 1
    /\ si = 1
    /\ best_match = None
    /\ best_confidence = 0
    /\ all_contents = <<>>
    /\ prompt = None
    /\ reply = NoReply
    /\ response = None
    /\ fetchCalls = <<>>
    /\ oracleCalls = <<>>
    /\ completionCalls = <<>>
    /\ scanned = <<>>

\* ------------------------------------------------------------------ actions

\* An uncaught exception ends the request.
Fail(what) ==
    /\ pc' = "done"
    /\ response' = ServerError(what)

\* chat(), up to the start of the keyword loop.
ChatBegin ==
    /\ pc = "idle"
    /\ data' \in Bodies
    /\ IF GetRaises(data')
       THEN /\ Fail("AttributeError")
            /\ UNCHANGED <<query, relevant_topics>>
       ELSE IF QueryFalsy(data')
       THEN /\ pc' = "done"
            /\ response' = NoQueryProvided
            /\ UNCHANGED <<query, relevant_topics>>
       ELSE /\ query' = data'.query
            /\ relevant_topics' = find_relevant_topics(data'.query)
            /\ pc' = IF relevant_topics' # <<>> THEN "keyword" ELSE "semantic"
            /\ UNCHANGED response
    /\ UNCHANGED <<NOTION_PAGES, ki, si, best_match, best_confidence,
                   all_contents, prompt, reply, fetchCalls, oracleCalls,
                   completionCalls, scanned>>

\* Where the keyword loop goes after a candidate that did not match.
KeywordAdvance ==
    /\ ki' = ki + 1
    /\ pc' = IF ki < Len(relevant_topics) THEN "keyword" ELSE "semantic"
    /\ UNCHANGED <<prompt, reply, response>>

\* One iteration of the keyword loop of chat().
KeywordStep ==
    /\ pc = "keyword"
    /\ LET topic == relevant_topics[ki]
           page_id == extract_page_id(UrlOf(topic))
       IN \E fetched \in FetchResults :
             /\ fetchCalls' = Append(fetchCalls,
                    [phase |-> "keyword", topic |-> topic, page_id |-> page_id,
                     outcome |-> FetchOutcome(fetched)])
             /\ IF FetchRaises(fetched)
                THEN /\ Fail("FetchError")
                     /\ UNCHANGED <<ki, prompt, reply, oracleCalls>>
                ELSE IF ~HasText(fetched.content)
                THEN /\ KeywordAdvance
                     /\ UNCHANGED oracleCalls
                ELSE \E oracle \in OracleReplies :
                     LET content_data == fetched.content
                         relevance == check_content_relevance(content_data, oracle)
                     IN /\ oracleCalls' = Append(oracleCalls,
                               [phase |-> "keyword", topic |-> topic,
                                strong |-> Strong(relevance, KeywordThreshold)])
                        /\ IF TestRaises(relevance)
                           THEN /\ Fail("VerdictError")
                                /\ UNCHANGED <<ki, prompt, reply>>
                           ELSE IF TestHolds(relevance, KeywordThreshold)
                           THEN /\ prompt' = Some(KeywordPrompt(topic, content_data))
                                /\ reply' = [topic |-> Some(topic),
                                             confidence |-> relevance.confidence,
                                             source |-> "keyword_match",
                                             images |-> content_data.images,
                                             available_topics |-> None,
                                             relevant |-> relevance.relevant]
                                /\ pc' = "respond"
                                /\ UNCHANGED <<ki, response>>
                           ELSE KeywordAdvance
    /\ UNCHANGED <<NOTION_PAGES, data, query, relevant_topics, si, best_match,
                   best_confidence, all_contents, completionCalls, scanned>>

\* One iteration of the loop of search_all_topics().
SemanticStep ==
    /\ pc = "semantic"
    /\ si <= Len(NOTION_PAGES)
    /\ LET topic == NOTION_PAGES[si].topic
           page_id == extract_page_id(NOTION_PAGES[si].url)
       IN \E fetched \in FetchResults :
             /\ fetchCalls' = Append(fetchCalls,
                    [phase |-> "semantic", topic |-> topic, page_id |-> page_id,
                     outcome |-> FetchOutcome(fetched)])
             /\ IF FetchRaises(fetched)
                THEN /\ Fail("FetchError")
                     /\ UNCHANGED <<si, best_match, best_confidence, all_contents,
                                    oracleCalls, scanned>>
                ELSE IF ~HasText(fetched.content)
                THEN /\ si' = si + 1
                     /\ UNCHANGED <<pc, response, best_match, best_confidence,
                                    all_contents, oracleCalls, scanned>>
                ELSE \E oracle \in OracleReplies :
                     LET content == fetched.content
                         relevance == check_content_relevance(content, oracle)
                     IN /\ all_contents' = Append(all_contents,
                               [topic |-> topic, content |-> content])
                        /\ oracleCalls' = Append(oracleCalls,
                               [phase |-> "semantic", topic |-> topic,
                                strong |-> Strong(relevance, KeywordThreshold)])
                        /\ scanned' = Append(scanned,
                               [index |-> si, topic |-> topic, verdict |-> relevance])
                        /\ IF TestRaises(relevance)
                           THEN /\ Fail("VerdictError")
                                /\ UNCHANGED <<si, best_match, best_confidence>>
                           ELSE /\ si' = si + 1
                                /\ UNCHANGED <<pc, response>>
                                /\ IF TestHolds(relevance, best_confidence)
                                   THEN /\ best_confidence' = relevance.confidence
                                        /\ best_match' = Some(
                                              [topic |-> topic, content |-> content,
                                               confidence |-> relevance.confidence,
                                               relevant |-> relevance.relevant])
                                   ELSE UNCHANGED <<best_match, best_confidence>>
    /\ UNCHANGED <<NOTION_PAGES, data, query, relevant_topics, ki, prompt,
                   reply, completionCalls>>

\* chat() after search_all_topics() returned: the semantic match or the fallback.
SemanticFinish ==
    /\ pc = "semantic"
    /\ si > Len(NOTION_PAGES)
    /\ IF best_match # None /\ best_match[1].confidence > SemanticThreshold
       THEN /\ prompt' = Some(SemanticPrompt(best_match[1]))
            /\ reply' = [topic |-> Some(best_match[1].topic),
                         confidence |-> best_match[1].confidence,
                         source |-> "semantic_search",
                         images |-> best_match[1].content.images,
                         available_topics |-> None,
                         relevant |-> best_match[1].relevant]
       ELSE LET available_topics == TopicNames
            IN /\ prompt' = Some(FallbackPrompt(available_topics))
               /\ reply' = [topic |-> None, confidence |-> 0,
                            source |-> "no_match", images |-> <<>>,
                            available_topics |-> Some(available_topics),
                            relevant |-> "none"]
    /\ pc' = "respond"
    /\ UNCHANGED <<NOTION_PAGES, data, query, relevant_topics, ki, si,
                   best_match, best_confidence, all_contents, response,
                   fetchCalls, oracleCalls, completionCalls, scanned>>

\* ask_groq(prompt) and the jsonify of the answer.
Respond ==
    /\ pc = "respond"
    /\ completionCalls' = Append(completionCalls, prompt[1])
    /\ \E answered \in BOOLEAN :
          response' = IF answered
                      THEN Some([status |-> 200, error |-> "", body |-> reply])
                      ELSE ServerError("CompletionError")
    /\ pc' = "done"
    /\ UNCHANGED <<NOTION_PAGES, data, query, relevant_topics, ki, si,
                   best_match, best_confidence, all_contents, prompt, reply,
                   fetchCalls, oracleCalls, scanned>>

\* The request is over; the server waits for the next one.
NextRequest ==
    /\ pc = "done"
    /\ pc' = "idle"
    /\ data' = NoBody
    /\ query' = <<>>
    /\ relevant_topics' = <<>>
    /\ ki' = 1
    /\ si' = 1
    /\ best_match' = None
    /\ best_confidence' = 0
    /\ all_contents' = <<>>
    /\ prompt' = None
    /\ reply' = NoReply
    /\ response' = None
    /\ fetchCalls' = <<>>
    /\ oracleCalls' = <<>>
    /\ completionCalls' = <<>>
    /\ scanned' = <<>>
    /\ UNCHANGED NOTION_PAGES

Next ==
    \/ ChatBegin
    \/ KeywordStep
    \/ SemanticStep
    \/ SemanticFinish
    \/ Respond
    \/ NextRequest

Spec == Init /\ [][Next]_vars

\* =================================================================== claims

\* The request reached the resolution: the query was accepted.
Resolving == pc \in {"keyword", "semantic", "respond"} \/ (pc = "done" /\ query # <<>>)

\* Calls of one phase in a call log.
OfPhase(calls, phase) == SelectSeq(calls, LAMBDA c : c.phase = phase)

\* Topics of a call log, in call order.
TopicsOf(calls) == [i \in DOMAIN calls |-> calls[i].topic]

\* ------------------------------------------------------------------------ C6

\* Case folding of the claim, stated apart from the model's Lower.
Fold(c) ==
    CASE c = "A" -> "a" []
         c = "B" -> "b" []
         c = "C" -> "c" []
         c = "D" -> "d" []
         c = "E" -> "e" []
         c = "F" -> "f" []
         c = "G" -> "g" []
         c = "H" -> "h" []
         c = "I" -> "i" []
         c = "J" -> "j" []
         c = "K" -> "k" []
         c = "L" -> "l" []
         c = "M" -> "m" []
         c = "N" -> "n" []
         c = "O" -> "o" []
         c = "P" -> "p" []
         c = "Q" -> "q" []
         c = "R" -> "r" []
         c = "S" -> "s" []
         c = "T" -> "t" []
         c = "U" -> "u" []
         c = "V" -> "v" []
         c = "W" -> "w" []
         c = "X" -> "x" []
         c = "Y" -> "y" []
         c = "Z" -> "z" []
         OTHER -> c

\* t occurs in q as a contiguous run of characters, case ignored.
OccursIn(t, q) ==
    \E start \in 1..(Len(q) + 1) :
        /\ start + Len(t) - 1 <= Len(q)
        /\ \A k \in 1..Len(t) : Fold(q[start + k - 1]) = Fold(t[k])

\* Catalog positions whose topic name occurs in q.
MatchingPositions(q) ==
    {i \in DOMAIN NOTION_PAGES : OccursIn(NOTION_PAGES[i].topic, q)}

\* Position of a topic name in the catalog (names are unique), 0 if absent.
PositionOf(t) ==
    IF \E i \in DOMAIN NOTION_PAGES : NOTION_PAGES[i].topic = t
    THEN CHOOSE i \in DOMAIN NOTION_PAGES : NOTION_PAGES[i].topic = t
    ELSE 0

\* s lists exactly the topics at the positions of P, in catalog order.
ListsInCatalogOrder(s, P) ==
    /\ \A k \in DOMAIN s : PositionOf(s[k]) \in P
    /\ \A k \in 1..(Len(s) - 1) : PositionOf(s[k]) < PositionOf(s[k + 1])
    /\ \A i \in P : \E k \in DOMAIN s : s[k] = NOTION_PAGES[i].topic

\* C6: find_relevant_topics(query) is exactly the subsequence of catalog topic
\* names, in catalog order, whose lower-cased name is a contiguous substring
\* of the lower-cased query; when there is none the candidate list is empty
\* and no fetch and no relevance check is issued for the keyword phase.
C6_CandidatesAreSubstringMatches ==
    Resolving =>
        LET P == MatchingPositions(query)
        IN /\ ListsInCatalogOrder(relevant_topics, P)
           /\ P = {} =>
                 /\ relevant_topics = <<>>
                 /\ pc # "keyword"
                 /\ \A i \in DOMAIN fetchCalls : fetchCalls[i].phase # "keyword"
                 /\ \A i \in DOMAIN oracleCalls : oracleCalls[i].phase # "keyword"

\* C6 witness: a query of two characters in mixed case selects two of the
\* topics, the second one by a two-character match, in catalog order.
C6_Witness_TwoCandidates ==
    /\ pc = "keyword"
    /\ query = <<"a", "B">>
    /\ relevant_topics = << <<"a", "b">>, <<"A">> >>

\* ------------------------------------------------------------------------ C2

\* The last entry of a non-empty call log.
Last(calls) == calls[Len(calls)]

\* C2: the keyword phase examines the candidates in order and stops at the
\* first one whose verdict has relevant == true and confidence > 60: the
\* answer is the keyword match for that candidate, no fetch and no relevance
\* check follows, and search_all_topics is never entered.
C2_KeywordShortCircuit ==
    /\ TopicsOf(OfPhase(fetchCalls, "keyword"))
          = SubSeq(relevant_topics, 1, Len(OfPhase(fetchCalls, "keyword")))
    /\ \A i \in DOMAIN oracleCalls :
          (oracleCalls[i].phase = "keyword" /\ oracleCalls[i].strong) =>
              /\ i = Len(oracleCalls)
              /\ Last(fetchCalls).phase = "keyword"
              /\ Last(fetchCalls).topic = oracleCalls[i].topic
              /\ pc \in {"respond", "done"}
              /\ reply.source = "keyword_match"
              /\ reply.topic = Some(oracleCalls[i].topic)
              /\ OfPhase(fetchCalls, "semantic") = <<>>
              /\ scanned = <<>>
              /\ si = 1

\* C2 witness: two candidates, the first one matched and answered; the second
\* one was neither fetched nor checked.
C2_Witness_FirstOfTwoWins ==
    /\ pc = "done"
    /\ response # None /\ response[1].status = 200
    /\ Len(relevant_topics) = 2
    /\ response[1].body.source = "keyword_match"
    /\ response[1].body.topic = Some(relevant_topics[1])
    /\ Len(fetchCalls) = 1
    /\ Len(oracleCalls) = 1 /\ oracleCalls[1].strong

\* ------------------------------------------------------------------------ C3

\* search_all_topics has scanned the whole catalog.
ScanComplete == pc \in {"semantic", "respond", "done"} /\ si > Len(NOTION_PAGES)

\* e is the earliest entry of highest confidence among the entries of S.
EarliestMax(e, S) ==
    /\ e \in S
    /\ \A f \in S : f.verdict.confidence <= e.verdict.confidence
    /\ \A f \in S : f.verdict.confidence = e.verdict.confidence => e.index <= f.index

\* best_match is the earliest entry of highest confidence of S, or None when
\* S is empty.
TracksBestOf(S) ==
    IF S = {} THEN best_match = None
    ELSE /\ best_match # None
         /\ \E e \in S : /\ EarliestMax(e, S)
                         /\ best_match[1].topic = e.topic
                         /\ best_match[1].confidence = e.verdict.confidence

ScannedEntries == {scanned[i] : i \in DOMAIN scanned}

\* Every verdict of the scan is a JSON boolean with an integer confidence.
ScanWellFormed ==
    \A e \in ScannedEntries :
        e.verdict.relevant \in {"true", "false"} /\ e.verdict.confKind = "int"

NoVerdictRelevant ==
    /\ reply.source = "keyword_match" => reply.relevant = "false"
    /\ \A i \in DOMAIN scanned : scanned[i].verdict.relevant = "false"

\* The body of the no-match answer.
NoMatchBody ==
    [topic |-> None, confidence |-> 0, source |-> "no_match", images |-> <<>>,
     available_topics |-> Some([i \in DOMAIN NOTION_PAGES |-> NOTION_PAGES[i].topic]),
     relevant |-> "none"]

\* C4: when every verdict of a resolution has relevant == false, the outcome
\* is the no-match answer: no topic, confidence 0, no images, and all catalog
\* topic names in catalog order.
C4_AllIrrelevantGivesNoMatch ==
    (pc \in {"respond", "done"} /\ reply.source # "none" /\ NoVerdictRelevant) =>
        /\ reply = NoMatchBody
        /\ (response # None /\ response[1].status = 200) => response[1].body = NoMatchBody

\* C4 witness: a no-match answer for a catalog of two topics, after a keyword
\* candidate was checked and one topic was skipped for its empty text.
C4_Witness_NoMatchAnswered ==
    /\ pc = "done"
    /\ response # None /\ response[1].status = 200
    /\ response[1].body.source = "no_match"
    /\ NoVerdictRelevant
    /\ Len(NOTION_PAGES) = 2
    /\ Len(scanned) = 1
    /\ OfPhase(oracleCalls, "keyword") # <<>>

\* ------------------------------------------------------------------------ C5

\* Phase and topic of each call of a log.
Targets(calls) == [i \in DOMAIN calls |-> <<calls[i].phase, calls[i].topic>>]

\* The phase that produces an answer of the given source.
PhaseOf(source) == IF source = "keyword_match" THEN "keyword" ELSE "semantic"

\* C5: a topic whose fetched text is empty is skipped before the relevance
\* check, is never the topic of a keyword or semantic match, and does not end
\* the resolution.
C5_EmptyTextNeverMatched ==
    /\ Targets(oracleCalls)
          = Targets(SelectSeq(fetchCalls, LAMBDA c : c.outcome = "text"))
    /\ reply.source \in {"keyword_match", "semantic_search"} =>
          \A i \in DOMAIN fetchCalls :
              (fetchCalls[i].phase = PhaseOf(reply.source)
               /\ Some(fetchCalls[i].topic) = reply.topic)
                  => fetchCalls[i].outcome = "text"
    /\ (pc = "done" /\ fetchCalls # <<>> /\ Last(fetchCalls).outcome = "empty") =>
          response[1].error \notin {"FetchError", "VerdictError"}

\* C5 witness: the first topic of the scan had no text and was not checked;
\* the second one was checked and is the semantic match.
C5_Witness_SkippedThenMatched ==
    /\ pc = "done"
    /\ response # None /\ response[1].status = 200
    /\ response[1].body.source = "semantic_search"
    /\ Len(OfPhase(fetchCalls, "semantic")) = 2
    /\ OfPhase(fetchCalls, "semantic")[1].outcome = "empty"
    /\ Len(OfPhase(oracleCalls, "semantic")) = 1
    /\ response[1].body.topic = Some(NOTION_PAGES[2].topic)

\* ------------------------------------------------------------------------ C9

\* C9: a fetch that fails ends the resolution: it is the last call made, the
\* request ends with the error, no answer is built, no completion call is
\* made, and the topic is not checked.
C9_FetchFailureIsFatal ==
    \A i \in DOMAIN fetchCalls :
        fetchCalls[i].outcome = "error" =>
            /\ i = Len(fetchCalls)
            /\ pc = "done"
            /\ response = ServerError("FetchError")
            /\ reply = NoReply
            /\ prompt = None
            /\ completionCalls = <<>>
            /\ \A j \in DOMAIN oracleCalls :
                  <<oracleCalls[j].phase, oracleCalls[j].topic>>
                      # <<fetchCalls[i].phase, fetchCalls[i].topic>>

\* C9 witness: after a keyword candidate was fetched and rejected, the fetch
\* of the second topic of the scan fails and the request ends with the error.
C9_Witness_FailureInScan ==
    /\ pc = "done"
    /\ response = ServerError("FetchError")
    /\ OfPhase(oracleCalls, "keyword") # <<>>
    /\ Len(OfPhase(fetchCalls, "semantic")) = 2
    /\ Last(fetchCalls).outcome = "error"

\* ------------------------------------------------------------------------ C1

\* C1: a keyword match never carries a confidence <= 60 and a semantic match
\* never carries a confidence <= 50, and the verdict that produced the match
\* had relevant == true.
C1_MatchAboveThresholdAndRelevant ==
    /\ reply.source = "keyword_match" =>
          reply.confidence > KeywordThreshold /\ reply.relevant = "true"
    /\ reply.source = "semantic_search" =>
          reply.confidence > SemanticThreshold /\ reply.relevant = "true"

\* ------------------------------------------------------------------------ C7

\* C7: a verdict that is not well formed is treated as {relevant: false,
\* confidence: 0} and never ends the resolution.
C7_MalformedVerdictNeverAborts ==
    /\ pc = "done" => response[1].error # "VerdictError"
    /\ reply.source \in {"keyword_match", "semantic_search"} =>
          reply.relevant \in {"true", "false"}

\* ------------------------------------------------------------------------ C8

\* C8: the prompt of a keyword or semantic match embeds at most 7000
\* characters of the text and tells the model to refuse when the
\* documentation does not hold the answer; the fallback prompt, which lists
\* all topic names, is used for the no-match outcome only.
C8_MatchPromptsTruncateAndRefuse ==
    prompt # None =>
        /\ prompt[1].kind \in {"keyword", "semantic"} =>
              /\ prompt[1].contextLen <= 7000
              /\ prompt[1].refuseIfUnanswerable
        /\ prompt[1].kind = "fallback" <=> reply.source = "no_match"
        /\ prompt[1].kind = "fallback" =>
              prompt[1].topics = [i \in DOMAIN NOTION_PAGES |-> NOTION_PAGES[i].topic]

\* ----------------------------------------------------------------------- C10

\* The request carries no query: no body object, no "query" member, or an
\* empty string.
NoQuery == data.kind = "null" \/ ~data.hasQuery \/ data.query = <<>>

\* C10: a request with an empty or missing query is rejected with the client
\* error before any resolution work: no candidate selection, no fetch, no
\* relevance check, no completion call.
C10_NoQueryIsClientError ==
    (pc = "done" /\ NoQuery) =>
        /\ response = NoQueryProvided
        /\ relevant_topics = <<>>
        /\ fetchCalls = <<>>
        /\ oracleCalls = <<>>
        /\ completionCalls = <<>>

====
